---- MODULE Spec2Model ----
(***************************************************************************)
(* Model of the netflix-sync-server room / presence coordinator            *)
(* (src/index.js).  One action per socket.io event handler; every handler  *)
(* runs to completion (single-threaded event loop).  The transport's room  *)
(* primitives (socket.join / socket.leave / io.to(room).emit and the       *)
(* in-memory adapter behind them) are modelled by what socket.io v3/v4     *)
(* does at the call sites of index.js.                                     *)
(***************************************************************************)
EXTENDS Integers, Sequences, FiniteSets, TLC

(* ------------------------------ bounds --------------------------------- *)
\* number of connections that are ever opened
MaxSockets == 2
\* number of distinct room codes getUID() can hand out
MaxCodes == 1
\* probe acknowledgements outstanding at a time, over all sockets
MaxPending == 1
\* largest measured round trip (end - start)
MaxPing == 1

(* ------------------------------ values --------------------------------- *)
Undefined == "undefined"
Null == "null"

SocketId(i) == "s" \o ToString(i)
SocketIds == {SocketId(i) : i \in 1..MaxSockets}

\* results of getUID().toUpperCase()
Codes == {"R" \o ToString(i) : i \in 1..MaxCodes}
\* a code no generator ever hands out
NotARealCode == "NOTAREALCODE"
\* what a client may send as the argument of join-room
JoinArgs == Codes \cup SocketIds \cup {NotARealCode}

defaultUsernamePrefixes == {"Awesome"}
defaultUsernameSuffixes == {"Giraffe"}
NamePool == {p \o " " \o s : p \in defaultUsernamePrefixes, s \in defaultUsernameSuffixes}
\* what a client may send as the argument of change-username
NameArgs == NamePool \cup {"Bob"}
\* arguments of sync and currentlyWatching
TimeArgs == {42}
MovieArgs == {7}
Elapsed == 0..MaxPing

Range(seq) == {seq[i] : i \in 1..Len(seq)}
EmptyMap == [k \in {} |-> k]
MapRemove(f, k) == [x \in DOMAIN f \ {k} |-> f[x]]
MapPut(f, k, v) == [x \in DOMAIN f \cup {k} |-> IF x = k THEN v ELSE f[x]]

\* a JavaScript Set, kept as the sequence of its elements in insertion order
SetAdd(seq, x) == IF x \in Range(seq) THEN seq ELSE Append(seq, x)
SetDelete(seq, x) == SelectSeq(seq, LAMBDA y : y # x)

VARIABLES
    conn,          \* transport state of each socket id: "new", "open", "closed"
    users,         \* users: socket id -> presence record
    pingIntervals, \* keys of pingIntervals
    timers,        \* socket ids whose setInterval timer is active in the runtime
    cleared,       \* number of clearInterval calls made for each socket id
    adapter,       \* io.sockets.adapter: rooms (room -> Set of ids), sids (id -> Set of rooms)
    acks,          \* per socket, the pending 'ping' acknowledgement closures (their currRoom)
    server,        \* "running", "hung" (event loop never returns), "crashed" (uncaught throw)
    last           \* the handler that ran last: event, socket, arguments, callback answer, emissions

vars == <<conn, users, pingIntervals, timers, cleared, adapter, acks, server, last>>

(* ------------------------- transport primitives ------------------------ *)
\* socket.join(room): adapter.addAll(id, {room})
SocketJoin(A, id, room) ==
    [rooms |-> MapPut(A.rooms, room,
                      IF room \in DOMAIN A.rooms THEN SetAdd(A.rooms[room], id) ELSE <<id>>),
     sids  |-> MapPut(A.sids, id,
                      IF id \in DOMAIN A.sids THEN SetAdd(A.sids[id], room) ELSE <<room>>)]

\* variant: an emptied room stays in the map
AdapterRoomsDelKeepEmpty(rooms, room, id) ==
    IF room \notin DOMAIN rooms THEN rooms
    ELSE MapPut(rooms, room, SetDelete(rooms[room], id))

\* adapter._del(room, id): an emptied room is deleted
AdapterRoomsDel(rooms, room, id) ==
    IF room \notin DOMAIN rooms THEN rooms
    ELSE IF SetDelete(rooms[room], id) = <<>> THEN MapRemove(rooms, room)
    ELSE MapPut(rooms, room, SetDelete(rooms[room], id))

\* socket.leave(room): adapter.del(id, room)
SocketLeave(A, id, room) ==
    [rooms |-> AdapterRoomsDel(A.rooms, room, id),
     sids  |-> IF id \in DOMAIN A.sids
               THEN MapPut(A.sids, id, SetDelete(A.sids[id], room))
               ELSE A.sids]

RECURSIVE DelFromAll(_, _, _)
DelFromAll(rooms, rs, id) ==
    IF rs = <<>> THEN rooms
    ELSE DelFromAll(AdapterRoomsDel(rooms, Head(rs), id), Tail(rs), id)

\* socket._cleanup(): adapter.delAll(id), run between 'disconnecting' and 'disconnect'
SocketLeaveAll(A, id) ==
    IF id \notin DOMAIN A.sids THEN A
    ELSE [rooms |-> DelFromAll(A.rooms, A.sids[id], id),
          sids  |-> MapRemove(A.sids, id)]

\* io.to(room).emit(event, ...args): one message to every socket of the room
IoToEmit(A, room, event, args) ==
    IF room \in DOMAIN A.rooms
    THEN <<[event |-> event, room |-> room, to |-> Range(A.rooms[room]), data |-> args] >>
    ELSE <<>>

(* ------------------------------ functions ------------------------------ *)
\* Array.from(socket.rooms)[1]
getCurrentRoom(A, id) ==
    IF id \in DOMAIN A.sids /\ Len(A.sids[id]) >= 2 THEN A.sids[id][2] ELSE Undefined

UndefinedUser ==
    [id |-> Undefined, name |-> Undefined, ping |-> 0,
     currentlyWatching |-> Undefined, currentTime |-> 0]

\* variant: the list carries the watching fields of registration
UsernamesWithoutWatching(U, members) ==
    [i \in 1..Len(members) |->
        IF members[i] \in DOMAIN U
        THEN [U[members[i]] EXCEPT !.currentlyWatching = "", !.currentTime = 0]
        ELSE UndefinedUser]

\* usersInRoom.forEach(socketId => usernames.push(users[socketId]))
Usernames(U, members) ==
    [i \in 1..Len(members) |->
        IF members[i] \in DOMAIN U THEN U[members[i]] ELSE UndefinedUser]

emitUserList(A, U, room) ==
    IF room \notin DOMAIN A.rooms THEN <<>>
    ELSE IoToEmit(A, room, "user-list", <<Usernames(U, A.rooms[room])>>)

HeldNames(U) == {U[id].name : id \in DOMAIN U}
\* the names the do-while loop of getRandomUsername can return; when there is
\* none the loop never ends
getRandomUsername(U) == NamePool \ HeldNames(U)

NoAnswer == [callback |-> FALSE]
\* currRoom is the handler's local of that name (Undefined where it reads none)
Handled(event, id, currRoom, args, ans, out) ==
    [event |-> event, id |-> id, currRoom |-> currRoom, args |-> args, ans |-> ans,
     out |-> out, threw |-> FALSE]

\* variant: the previous room is never left
LeaveCurrentSkipped(A, id) == A

\* if (currRoom) { socket.leave(currRoom); emitUserList(currRoom); } : the leave
LeaveCurrent(A, id) ==
    IF getCurrentRoom(A, id) # Undefined
    THEN SocketLeave(A, id, getCurrentRoom(A, id))
    ELSE A

\* variant: emitUserList(currRoom) runs before socket.leave(currRoom)
EmitVacatedBeforeLeave(A0, A1, U, id) ==
    IF getCurrentRoom(A0, id) # Undefined
    THEN emitUserList(A0, U, getCurrentRoom(A0, id))
    ELSE <<>>

\* ... and the emission for the vacated room, on the adapter state after the leave
EmitVacated(A0, A1, U, id) ==
    IF getCurrentRoom(A0, id) # Undefined
    THEN emitUserList(A1, U, getCurrentRoom(A0, id))
    ELSE <<>>

(* -------------------------------- Init --------------------------------- *)
Init ==
    /\ conn = [id \in SocketIds |-> "new"]
    /\ users = EmptyMap
    /\ pingIntervals = {}
    /\ timers = {}
    /\ cleared = [id \in SocketIds |-> 0]
    /\ adapter = [rooms |-> EmptyMap, sids |-> EmptyMap]
    /\ acks = [id \in SocketIds |-> <<>>]
    /\ server = "running"
    /\ last = Handled("listen", Undefined, Undefined, <<>>, NoAnswer, <<>>)

\* acknowledgement packets read behind a disconnect packet in the same batch
\* are still to be processed: nothing else runs before them
InBatch == \E id \in SocketIds : conn[id] = "closed" /\ acks[id] # <<>>
Ready == server = "running" /\ ~InBatch
Open(id) == Ready /\ conn[id] = "open"

(* ------------------------------- handlers ------------------------------ *)
\* io.on('connection'): the transport has put the socket into its private room
Connection(id) ==
    /\ Ready
    /\ conn[id] = "new"
    /\ \E i \in 1..MaxSockets :
          id = SocketId(i) /\ \A j \in 1..(i - 1) : conn[SocketId(j)] # "new"
    /\ conn' = [conn EXCEPT ![id] = "open"]
    /\ adapter' = SocketJoin(adapter, id, id)
    /\ IF getRandomUsername(users) = {}
       THEN /\ server' = "hung"
            /\ last' = Handled("connection", id, Undefined, <<>>, NoAnswer, <<>>)
            /\ UNCHANGED <<users, pingIntervals, timers>>
       ELSE /\ \E name \in getRandomUsername(users) :
                  users' = MapPut(users, id,
                                  [id |-> id, name |-> name, ping |-> 0,
                                   currentlyWatching |-> "", currentTime |-> 0])
            /\ pingIntervals' = pingIntervals \cup {id}
            /\ timers' = timers \cup {id}
            /\ last' = Handled("connection", id, Undefined, <<>>, NoAnswer, <<>>)
            /\ UNCHANGED server
    /\ UNCHANGED <<cleared, acks>>


\* 'disconnecting' (297-303), the transport's cleanup, then 'disconnect' (305-312);
\* socket.io runs the three synchronously in one call
DisconnectingLeave(A, id) == LeaveCurrent(A, id)

\* variant: the interval is never cleared
ClearIntervalSkipped(T, P, id) == T

\* clearInterval(pingIntervals[socket.id]) under if (pingIntervals[socket.id])
ClearInterval(T, P, id) == IF id \in P THEN T \ {id} ELSE T

\* variant: the record is kept
DeleteUserSkipped(U, id) == U

\* delete users[socket.id]
DeleteUser(U, id) == MapRemove(U, id)

Disconnect(id, trailing) ==
    /\ Open(id)
    /\ LET left == DisconnectingLeave(adapter, id)
       IN /\ adapter' = SocketLeaveAll(left, id)
          /\ last' = Handled("disconnect", id, getCurrentRoom(adapter, id), <<>>, NoAnswer,
                             EmitVacated(adapter, left, users, id))
    /\ conn' = [conn EXCEPT ![id] = "closed"]
    /\ users' = DeleteUser(users, id)
    /\ timers' = ClearInterval(timers, pingIntervals, id)
    /\ cleared' = IF timers' # timers THEN [cleared EXCEPT ![id] = @ + 1] ELSE cleared
    /\ pingIntervals' = pingIntervals \ {id}
    \* acknowledgements that were not read in this batch can never arrive
    /\ acks' = IF trailing THEN acks ELSE [acks EXCEPT ![id] = <<>>]
    /\ UNCHANGED server

\* variant: the name is not written
RenameSkipped(U, id, name) == U

\* variant: a name held by another record is refused
RenameIfUnique(U, id, name) ==
    IF \E other \in DOMAIN U \ {id} : U[other].name = name
    THEN U
    ELSE [U EXCEPT ![id].name = name]

\* users[socket.id].name = name
Rename(U, id, name) == [U EXCEPT ![id].name = name]

ChangeUsername(id, name) ==
    /\ Open(id)
    /\ users' = Rename(users, id, name)
    /\ last' = Handled("change-username", id, getCurrentRoom(adapter, id), <<name>>, [error |-> Null],
                       IF getCurrentRoom(adapter, id) # Undefined
                       THEN emitUserList(adapter, users', getCurrentRoom(adapter, id))
                       ELSE <<>>)
    /\ UNCHANGED <<conn, pingIntervals, timers, cleared, adapter, acks, server>>

\* getUID().toUpperCase(): a random 10-character code; the codes that name no
\* room at the moment stand for it
NewRoomIDs(A) == Codes \ DOMAIN A.rooms

CreateRoom(id) ==
    /\ Open(id)
    /\ LET left == LeaveCurrent(adapter, id)
           vacated == EmitVacated(adapter, left, users, id)
       IN \E newRoomID \in NewRoomIDs(left) :
             /\ adapter' = SocketJoin(left, id, newRoomID)
             /\ last' = Handled("create-room", id, getCurrentRoom(adapter, id), <<>>,
                                [error |-> Null, roomID |-> newRoomID],
                                vacated \o emitUserList(adapter', users, newRoomID))
    /\ UNCHANGED <<conn, users, pingIntervals, timers, cleared, acks, server>>

\* variant: the existence test is missing
RoomExistsAlways(A, room) == TRUE

\* if (io.sockets.adapter.rooms.get(room))
RoomExists(A, room) == room \in DOMAIN A.rooms

JoinRoom(id, room) ==
    /\ Open(id)
    /\ IF RoomExists(adapter, room)
       THEN LET left == LeaveCurrent(adapter, id)
            IN /\ adapter' = SocketJoin(left, id, room)
               /\ last' = Handled("join-room", id, getCurrentRoom(adapter, id), <<room>>,
                                  [error |-> Null, roomID |-> room],
                                  EmitVacated(adapter, left, users, id)
                                     \o emitUserList(adapter', users, room))
       ELSE /\ adapter' = adapter
            /\ last' = Handled("join-room", id, Undefined, <<room>>,
                               [error |-> "Room does not exist", roomID |-> Null], <<>>)
    /\ UNCHANGED <<conn, users, pingIntervals, timers, cleared, acks, server>>

LeaveRoom(id) ==
    /\ Open(id)
    /\ IF getCurrentRoom(adapter, id) # Undefined
       THEN /\ adapter' = LeaveCurrent(adapter, id)
            /\ last' = Handled("leave-room", id, getCurrentRoom(adapter, id), <<>>, [error |-> Null],
                               EmitVacated(adapter, adapter', users, id))
       ELSE /\ adapter' = adapter
            /\ last' = Handled("leave-room", id, getCurrentRoom(adapter, id), <<>>, [error |-> "No room to leave"], <<>>)
    /\ UNCHANGED <<conn, users, pingIntervals, timers, cleared, acks, server>>

GetCurrentRoom(id) ==
    /\ Open(id)
    /\ last' = Handled("get-current-room", id, Undefined, <<>>,
                       [value |-> getCurrentRoom(adapter, id)], <<>>)
    /\ UNCHANGED <<conn, users, pingIntervals, timers, cleared, adapter, acks, server>>

\* variant: socket.to(currRoom).emit, which leaves out the sender
RelayToOthers(A, id, event, args) ==
    IF getCurrentRoom(A, id) # Undefined
    THEN <<[event |-> event, room |-> getCurrentRoom(A, id),
            to |-> Range(A.rooms[getCurrentRoom(A, id)]) \ {id}, data |-> args]>>
    ELSE <<>>

\* play, pause, sync: if (currRoom) io.to(currRoom).emit(event, ...args)
Relay(A, id, event, args) ==
    IF getCurrentRoom(A, id) # Undefined
    THEN IoToEmit(A, getCurrentRoom(A, id), event, args)
    ELSE <<>>

Play(id) ==
    /\ Open(id)
    /\ last' = Handled("play", id, getCurrentRoom(adapter, id), <<>>, NoAnswer, Relay(adapter, id, "play", <<>>))
    /\ UNCHANGED <<conn, users, pingIntervals, timers, cleared, adapter, acks, server>>

Pause(id) ==
    /\ Open(id)
    /\ last' = Handled("pause", id, getCurrentRoom(adapter, id), <<>>, NoAnswer, Relay(adapter, id, "pause", <<>>))
    /\ UNCHANGED <<conn, users, pingIntervals, timers, cleared, adapter, acks, server>>

Sync(id, time) ==
    /\ Open(id)
    /\ last' = Handled("sync", id, getCurrentRoom(adapter, id), <<time>>, NoAnswer, Relay(adapter, id, "sync", <<time>>))
    /\ UNCHANGED <<conn, users, pingIntervals, timers, cleared, adapter, acks, server>>

\* variant: the record is updated whether or not the sender is in a room
ReportWatchingAnywhere(A, U, id, movieId, time) ==
    [U EXCEPT ![id].currentlyWatching = ToString(movieId), ![id].currentTime = time]

\* if (currRoom) { users[socket.id].currentlyWatching = String(movieId); ... }
ReportWatching(A, U, id, movieId, time) ==
    IF getCurrentRoom(A, id) # Undefined
    THEN [U EXCEPT ![id].currentlyWatching = ToString(movieId), ![id].currentTime = time]
    ELSE U

CurrentlyWatching(id, movieId, time) ==
    /\ Open(id)
    /\ users' = ReportWatching(adapter, users, id, movieId, time)
    /\ last' = Handled("currentlyWatching", id, getCurrentRoom(adapter, id), <<movieId, time>>, NoAnswer, <<>>)
    /\ UNCHANGED <<conn, pingIntervals, timers, cleared, adapter, acks, server>>

Pending(K) == UNION {{<<id, i>> : i \in DOMAIN K[id]} : id \in SocketIds}

\* variant: the tick probes whether or not the connection is in a room
ProbeSkippedNever(A, id) == FALSE

\* if (!currRoom) return;
ProbeSkipped(A, id) == getCurrentRoom(A, id) = Undefined

\* the setInterval callback: fires only while the runtime holds the timer; cap
\* bounds the acknowledgements outstanding at a time
ProbeTick(id, cap) ==
    /\ Ready
    /\ id \in timers
    /\ IF ProbeSkipped(adapter, id)
       THEN /\ acks' = acks
            /\ last' = Handled("ping-tick", id, getCurrentRoom(adapter, id), <<>>, NoAnswer, <<>>)
       ELSE /\ Cardinality(Pending(acks)) < cap
            /\ acks' = [acks EXCEPT ![id] = Append(@, getCurrentRoom(adapter, id))]
            /\ last' = Handled("ping-tick", id, getCurrentRoom(adapter, id), <<>>, NoAnswer,
                               <<[event |-> "ping", room |-> Undefined, to |-> {id}, data |-> <<>>]>>)
    /\ UNCHANGED <<conn, users, pingIntervals, timers, cleared, adapter, server>>

PingTick(id) == ProbeTick(id, MaxPending)

RemoveAt(seq, i) == [j \in 1..(Len(seq) - 1) |-> IF j < i THEN seq[j] ELSE seq[j + 1]]

\* the room emitUserList is called with in the acknowledgement callback: the
\* currRoom its closure captured when the probe was sent
ReplyRoom(A, id, currRoom) == currRoom

\* variant: the sample goes to the record that was registered first
RecordPingOfFirst(U, id, elapsed) ==
    LET i == CHOOSE k \in 1..MaxSockets :
                 SocketId(k) \in DOMAIN U /\ \A j \in 1..(k - 1) : SocketId(j) \notin DOMAIN U
    IN [U EXCEPT ![SocketId(i)].ping = elapsed]

\* users[socket.id].ping = end - start
RecordPing(U, id, elapsed) == [U EXCEPT ![id].ping = elapsed]

\* the acknowledgement callback of socket.volatile.emit('ping', ...).  The
\* transport hands an acknowledgement packet to the callback without looking at
\* the socket's connected flag: one that was read in the same batch as the
\* socket's disconnect packet, behind it (Disconnect with trailing), is
\* processed right after the disconnect handlers and still runs the callback.
PingReply(id, i, elapsed) ==
    /\ server = "running"
    /\ Open(id) \/ conn[id] = "closed"
    /\ i \in 1..Len(acks[id])
    /\ acks' = [acks EXCEPT ![id] = RemoveAt(@, i)]
    /\ IF id \in DOMAIN users
       THEN /\ users' = RecordPing(users, id, elapsed)
            /\ last' = Handled("ping-reply", id, acks[id][i], <<elapsed>>, NoAnswer,
                               emitUserList(adapter, users', ReplyRoom(adapter, id, acks[id][i])))
            /\ UNCHANGED server
       ELSE \* users[socket.id] is undefined: the assignment throws a TypeError
            /\ users' = users
            /\ last' = [Handled("ping-reply", id, acks[id][i], <<elapsed>>, NoAnswer, <<>>)
                            EXCEPT !.threw = TRUE]
            /\ server' = "crashed"
    /\ UNCHANGED <<conn, pingIntervals, timers, cleared, adapter>>

Next ==
    \/ \E id \in SocketIds : Connection(id)
    \/ \E id \in SocketIds, trailing \in BOOLEAN : Disconnect(id, trailing)
    \/ \E id \in SocketIds, name \in NameArgs : ChangeUsername(id, name)
    \/ \E id \in SocketIds : CreateRoom(id)
    \/ \E id \in SocketIds, room \in JoinArgs : JoinRoom(id, room)
    \/ \E id \in SocketIds : LeaveRoom(id)
    \/ \E id \in SocketIds : GetCurrentRoom(id)
    \/ \E id \in SocketIds : Play(id)
    \/ \E id \in SocketIds : Pause(id)
    \/ \E id \in SocketIds, time \in TimeArgs : Sync(id, time)
    \/ \E id \in SocketIds, movieId \in MovieArgs, time \in TimeArgs :
            CurrentlyWatching(id, movieId, time)
    \/ \E id \in SocketIds : PingTick(id)
    \/ \E id \in SocketIds, i \in 1..MaxPending, elapsed \in Elapsed : PingReply(id, i, elapsed)

Spec == Init /\ [][Next]_vars

\* The latency probes under load: one more acknowledgement may be outstanding
\* than under Spec, so that a connection holds several unanswered probes and
\* two connections hold probes at once.  The handlers that write no server
\* state (the relays and the room query) and the joins that name no code are
\* left to Spec.
ProbeCap == MaxPending + 1

NextProbes ==
    \/ \E id \in SocketIds : Connection(id)
    \/ \E id \in SocketIds, trailing \in BOOLEAN : Disconnect(id, trailing)
    \/ \E id \in SocketIds, name \in NameArgs : ChangeUsername(id, name)
    \/ \E id \in SocketIds : CreateRoom(id)
    \/ \E id \in SocketIds, room \in Codes : JoinRoom(id, room)
    \/ \E id \in SocketIds : LeaveRoom(id)
    \/ \E id \in SocketIds, movieId \in MovieArgs, time \in TimeArgs :
            CurrentlyWatching(id, movieId, time)
    \/ \E id \in SocketIds : ProbeTick(id, ProbeCap)
    \/ \E id \in SocketIds, i \in 1..ProbeCap, elapsed \in Elapsed : PingReply(id, i, elapsed)

SpecProbes == Init /\ [][NextProbes]_vars

(* ------------------------------ properties ----------------------------- *)
\* the rooms a connection is associated with, its private group apart
RoomsOf(A, id) == IF id \in DOMAIN A.sids THEN Range(A.sids[id]) \ {id} ELSE {}
\* the connections associated with a room
MembersOf(A, room) == {id \in DOMAIN A.sids : room \in Range(A.sids[id])}
\* the rooms, other than its private group, that list the connection as a member
ListedIn(A, id) == {r \in DOMAIN A.rooms \ {id} : id \in Range(A.rooms[r])}

JoinSucceeded == last.event = "join-room" /\ last.ans.error = Null
RoomState == <<conn, users, pingIntervals, timers, cleared, adapter, acks, server>>

\* C1: every connection is a member of at most one room besides its private
\* group, and after a successful join-room it is a member of the joined room only.
C1_Exclusive ==
    /\ \A id \in SocketIds :
          /\ Cardinality(RoomsOf(adapter, id)) <= 1
          /\ ListedIn(adapter, id) = RoomsOf(adapter, id)
    /\ JoinSucceeded => RoomsOf(adapter, last.id) \subseteq {last.args[1]}

\* a successful join-room by a connection that was in another room
C1_Witness ==
    /\ JoinSucceeded
    /\ last.currRoom # Undefined
    /\ last.currRoom # last.args[1]
    /\ RoomsOf(adapter, last.id) = {last.args[1]}

\* C2: join-room with a code no connection is associated with answers
\* 'Room does not exist' with roomID null, emits nothing and changes no state.
C2_JoinUnknownRoom ==
    [][(last'.event = "join-room" /\ MembersOf(adapter, last'.args[1]) = {})
          => /\ last'.ans = [error |-> "Room does not exist", roomID |-> Null]
             /\ last'.out = <<>>
             /\ UNCHANGED RoomState]_vars

\* a failed join-room by a connection that is in a room, and stays in it
C2_Witness ==
    /\ last.event = "join-room"
    /\ last.ans.error = "Room does not exist"
    /\ getCurrentRoom(adapter, last.id) \in Codes
    /\ Cardinality(MembersOf(adapter, getCurrentRoom(adapter, last.id))) = 2

\* C3: leave-room in no room answers 'No room to leave' and changes nothing; a
\* leave-room that directly follows the connection's successful create-room or
\* join-room answers error null, and one that directly follows its successful
\* leave-room answers 'No room to leave'.
C3_LeaveOnce ==
    [][last'.event = "leave-room"
          => /\ getCurrentRoom(adapter, last'.id) = Undefined
                   => /\ last'.ans = [error |-> "No room to leave"]
                      /\ UNCHANGED RoomState
             /\ (/\ last.event \in {"create-room", "join-room"}
                 /\ last.id = last'.id
                 /\ last.ans.error = Null) => last'.ans = [error |-> Null]
             /\ (/\ last.event = "leave-room"
                 /\ last.id = last'.id
                 /\ last.ans.error = Null) => last'.ans = [error |-> "No room to leave"]]_vars

UserListsOf(h) == {k \in 1..Len(h.out) : h.out[k].event = "user-list"}
EntryIds(list) == {list[i].id : i \in 1..Len(list)}

C5_Relay ==
    (last.event \in {"play", "pause", "sync"} /\ getCurrentRoom(adapter, last.id) # Undefined)
        => /\ Len(last.out) = 1
           /\ last.out[1].event = last.event
           /\ last.out[1].data = last.args
           /\ last.out[1].to = MembersOf(adapter, getCurrentRoom(adapter, last.id))
           /\ last.id \in last.out[1].to

\* sync(42) in a room of two
C5_Witness ==
    /\ last.event = "sync"
    /\ last.args = <<42>>
    /\ Len(last.out) = 1
    /\ last.out[1].data = <<42>>
    /\ Cardinality(last.out[1].to) = 2

\* C6: a connection's timer is cancelled exactly once, at disconnect, and no
\* tick runs for a connection whose presence record has been removed.
C6_TimerStopped ==
    /\ \A id \in SocketIds :
          /\ conn[id] = "closed" => id \notin timers /\ cleared[id] = 1
          /\ conn[id] # "closed" => cleared[id] = 0
    /\ last.event = "ping-tick" => last.id \in DOMAIN users /\ conn[last.id] = "open"

\* a disconnected connection whose timer had ticked and sent a probe
C6_Witness ==
    \E id \in SocketIds :
        /\ conn[id] = "closed"
        /\ acks[id] # <<>>
        /\ cleared[id] = 1
        /\ id \notin timers

\* C7: a probe reply handled after the connection's disconnect is a safe no-op:
\* it raises no error, writes no ping and emits no user-list.
C7_StaleReplyIsNoOp ==
    (last.event = "ping-reply" /\ conn[last.id] = "closed")
        => /\ ~last.threw
           /\ last.out = <<>>
           /\ server = "running"

\* C8: the user-list a probe reply triggers is for the room the connection is
\* in when the reply is handled, and for no room when it is in none.
C8_ReplyRoomAtReplyTime ==
    (last.event = "ping-reply" /\ ~last.threw)
        => IF getCurrentRoom(adapter, last.id) = Undefined
           THEN last.out = <<>>
           ELSE /\ Len(last.out) = 1
                /\ last.out[1].room = getCurrentRoom(adapter, last.id)

\* C9: change-username to a name another live connection holds answers error
\* null, gives the caller that name and leaves the other records as they were.
C9_RenameToHeldName ==
    [][(/\ last'.event = "change-username"
        /\ \E other \in DOMAIN users \ {last'.id} : users[other].name = last'.args[1])
          => /\ last'.ans = [error |-> Null]
             /\ users'[last'.id].name = last'.args[1]
             /\ \A other \in DOMAIN users \ {last'.id} :
                   other \in DOMAIN users' /\ users'[other] = users[other]]_vars

\* two live presence records hold the name the last change-username set
C9_Witness ==
    /\ last.event = "change-username"
    /\ last.id \in DOMAIN users
    /\ users[last.id].name = last.args[1]
    /\ \E other \in DOMAIN users \ {last.id} : users[other].name = last.args[1]

MembershipChanged ==
    \/ last.event = "create-room"
    \/ JoinSucceeded
    \/ last.event = "leave-room" /\ last.ans.error = Null
    \/ last.event = "disconnect" /\ last.currRoom # Undefined

\* C10: a handler that changes membership emits one user-list for the room it
\* entered, and never two user-lists for the same room.
C10_OneUserListPerRoom ==
    MembershipChanged
        => /\ \A j, k \in UserListsOf(last) : j # k => last.out[j].room # last.out[k].room
           /\ last.event \in {"create-room", "join-room"}
                 => \E k \in UserListsOf(last) : last.out[k].room = last.ans.roomID

PresenceChanged ==
    \/ last.event = "change-username"
    \/ last.event = "currentlyWatching"
    \/ last.event = "ping-reply" /\ ~last.threw

\* C11: a rename, a currentlyWatching update or a latency sample of a
\* connection that is in a room emits, in the same handler, a user-list to the
\* room the connection is in.
C11_BroadcastAfterUpdate ==
    (PresenceChanged /\ getCurrentRoom(adapter, last.id) # Undefined)
        => \E k \in UserListsOf(last) :
              last.out[k].room = getCurrentRoom(adapter, last.id)

\* C14: after join-room answers success with roomID c the caller is a member
\* of c and its current room, as get-current-room reports it, is c.
C14_JoinedIsCurrent ==
    JoinSucceeded
        => /\ last.ans.roomID = last.args[1]
           /\ last.id \in MembersOf(adapter, last.args[1])
           /\ getCurrentRoom(adapter, last.id) = last.args[1]

\* C15: the connection handler always runs to its end and leaves the new
\* connection with a record whose name no other record holds.
C15_RegisterTerminates ==
    /\ server # "hung"
    /\ last.event = "connection"
          => /\ last.id \in DOMAIN users
             /\ \A other \in DOMAIN users \ {last.id} :
                   users[other].name # users[last.id].name

\* C12: play, pause, sync and currentlyWatching of a connection that is in no
\* room emit nothing and change no presence record nor any other server state.
C12_NoRoomNoOp ==
    [][(/\ last'.event \in {"play", "pause", "sync", "currentlyWatching"}
        /\ getCurrentRoom(adapter, last'.id) = Undefined)
          => /\ last'.out = <<>>
             /\ last'.ans = NoAnswer
             /\ UNCHANGED RoomState]_vars

\* currentlyWatching was handled for a connection in no room: its record still
\* has the watching fields of registration
C12_Witness ==
    /\ last.event = "currentlyWatching"
    /\ last.currRoom = Undefined
    /\ last.out = <<>>
    /\ last.id \in DOMAIN users
    /\ users[last.id].currentlyWatching = ""
    /\ users[last.id].currentTime = 0

\* C13 as stated: change-username of a connection that is in no room answers
\* {error: null}, emits nothing and leaves every presence record, the caller's
\* name included, unchanged.
C13_RenameOutsideRoomNoOp ==
    [][(/\ last'.event = "change-username"
        /\ getCurrentRoom(adapter, last'.id) = Undefined)
          => /\ last'.ans = [error |-> Null]
             /\ last'.out = <<>>
             /\ UNCHANGED RoomState]_vars

\* C13: change-username of a connection that is in no room answers
\* {error: null}, emits nothing, sets the caller's name to the given one and
\* leaves the caller's other fields, every other record and the rest of the
\* server state unchanged.
C13_RenameOutsideRoom ==
    [][(/\ last'.event = "change-username"
        /\ getCurrentRoom(adapter, last'.id) = Undefined)
          => /\ last'.ans = [error |-> Null]
             /\ last'.out = <<>>
             /\ users' = [users EXCEPT ![last'.id].name = last'.args[1]]
             /\ UNCHANGED <<conn, pingIntervals, timers, cleared, adapter, acks, server>>]_vars

\* a connection in no room holds the name its change-username gave, and
\* nothing was emitted
C13_Witness ==
    /\ last.event = "change-username"
    /\ last.currRoom = Undefined
    /\ last.out = <<>>
    /\ last.args[1] = "Bob"
    /\ users[last.id].name = "Bob"
    /\ RoomsOf(adapter, last.id) = {}

\* the transport's room map lists exactly the rooms that have a member, each
\* with its members
RoomsHaveMembers ==
    /\ \A r \in DOMAIN adapter.rooms :
          /\ Range(adapter.rooms[r]) # {}
          /\ Range(adapter.rooms[r]) = MembersOf(adapter, r)
    /\ \A id \in DOMAIN adapter.sids : Range(adapter.sids[id]) \subseteq DOMAIN adapter.rooms

JoinAnswersExistence ==
    last'.event = "join-room"
        => (last'.ans.error = "Room does not exist") = (MembersOf(adapter, last'.args[1]) = {})

\* C16: a room exists exactly while it has a member: no record of an empty
\* room remains, and join-room answers 'Room does not exist' exactly when no
\* connection is associated with the code at that moment.
C16_RoomLifetime == []RoomsHaveMembers /\ [][JoinAnswersExistence]_vars

\* join-room is refused for a code that named a room before (a probe sent from
\* that room is still outstanding) and that the last member has left
C16_Witness ==
    /\ last.event = "join-room"
    /\ last.ans.error = "Room does not exist"
    /\ last.args[1] \in Codes
    /\ \E id \in SocketIds : last.args[1] \in Range(acks[id])
    /\ MembersOf(adapter, last.args[1]) = {}

\* the handlers that write a presence field, with the write each of them makes
OwnWrite(U, h) ==
    CASE h.event = "change-username" -> [U[h.id] EXCEPT !.name = h.args[1]]
      [] h.event = "currentlyWatching" ->
            [U[h.id] EXCEPT !.currentlyWatching = ToString(h.args[1]), !.currentTime = h.args[2]]
      [] h.event = "ping-reply" -> [U[h.id] EXCEPT !.ping = h.args[1]]
      [] OTHER -> U[h.id]

\* C17: a step changes the record of a live connection only if it is a
\* change-username, currentlyWatching or probe reply of that connection, and
\* then by that handler's own write; a probe reply stores its sample in the
\* ping field of the connection that was probed.
C17_OwnRecordOnly ==
    [][/\ \A id \in DOMAIN users \cap DOMAIN users' :
             users'[id] # users[id]
                => last'.id = id /\ users'[id] = OwnWrite(users, last')
       /\ (last'.event = "ping-reply" /\ ~last'.threw)
             => users'[last'.id].ping = last'.args[1]]_vars

\* the reply of one connection arrived while a probe of another connection is
\* outstanding: the sample is in the record of the probed connection only
C17_Witness ==
    /\ last.event = "ping-reply"
    /\ ~last.threw
    /\ last.args[1] = 1
    /\ users[last.id].ping = 1
    /\ \E other \in DOMAIN users \ {last.id} :
          /\ acks[other] # <<>>
          /\ users[other].ping = 0

C19_TickAndLostReply ==
    [][/\ (last'.event = "ping-tick" /\ getCurrentRoom(adapter, last'.id) = Undefined)
             => /\ last'.out = <<>>
                /\ UNCHANGED RoomState
                /\ last'.id \in timers'
       /\ (last'.event = "ping-tick" /\ getCurrentRoom(adapter, last'.id) # Undefined)
             => /\ acks' = [acks EXCEPT ![last'.id] = Append(@, getCurrentRoom(adapter, last'.id))]
                /\ Len(last'.out) = 1
                /\ last'.out[1].event = "ping"
                /\ last'.out[1].to = {last'.id}
                /\ UNCHANGED <<conn, users, pingIntervals, timers, cleared, adapter, server>>
       /\ last'.event # "ping-reply"
             => \A id \in DOMAIN users \cap DOMAIN users' : users'[id].ping = users[id].ping]_vars

\* a tick has sent a probe while an earlier probe of the same connection is
\* unanswered, the ping value is the one of registration and the timer is held
C19_Witness ==
    /\ last.event = "ping-tick"
    /\ Len(last.out) = 1
    /\ Len(acks[last.id]) = 2
    /\ users[last.id].ping = 0
    /\ last.id \in timers

Live == {id \in SocketIds : conn[id] = "open"}
Disconnected == {id \in SocketIds : conn[id] = "closed"}

\* between handlers: the records, the interval handles and the running timers
\* are those of the live connections; every member of a room has a record and
\* no user-list has an undefined entry; a disconnected connection is in no
\* room and has neither record nor timer
PresenceConsistent ==
    server # "hung"
        => /\ DOMAIN users = Live
           /\ pingIntervals = Live
           /\ timers = Live
           /\ \A r \in DOMAIN adapter.rooms : Range(adapter.rooms[r]) \subseteq DOMAIN users
           /\ \A k \in UserListsOf(last) :
                 \A i \in 1..Len(last.out[k].data[1]) : last.out[k].data[1][i] # UndefinedUser
           /\ \A id \in Disconnected :
                 /\ id \notin DOMAIN adapter.sids
                 /\ \A r \in DOMAIN adapter.rooms : id \notin Range(adapter.rooms[r])
                 /\ id \notin DOMAIN users
                 /\ id \notin pingIntervals
                 /\ id \notin timers

DisconnectedIsTerminal ==
    \A id \in Disconnected :
        /\ conn'[id] = "closed"
        /\ id \notin DOMAIN users'
        /\ id \notin timers'
        /\ id \notin DOMAIN adapter'.sids

\* C20: between handlers the connections with a record, with a timer handle
\* and the live connections are the same set, every room member has a record
\* and no user-list has an undefined entry; a disconnected connection is in no
\* room, has no record and no timer, and stays so.
C20_PresenceConsistent == []PresenceConsistent /\ [][DisconnectedIsTerminal]_vars

\* one connection has disconnected from a room it shared: the member that
\* stays was sent a user-list, and is the only connection with record and timer
C20_Witness ==
    /\ last.event = "disconnect"
    /\ last.currRoom \in Codes
    /\ UserListsOf(last) # {}
    /\ Disconnected = {last.id}
    /\ Live # {}
    /\ DOMAIN users = Live
    /\ timers = Live
    /\ MembersOf(adapter, last.currRoom) = Live

====
